---- MODULE Spec2Model ----
(***************************************************************************)
(* A model of cvpysdk/client.py: the Clients registry and the Client       *)
(* entity, their requests to the transport (make_request) and the way      *)
(* they interpret its replies.                                             *)
(*                                                                         *)
(* Strings are sequences of one-character strings where the code converts  *)
(* them (lower()), and TLA+ strings where it only passes them on.  A JSON  *)
(* object is a record (a function on strings), a JSON array a sequence;    *)
(* Python's index 0 is index 1 here.  Every operation is one action: it    *)
(* draws its arguments and the transport's replies from bounded sets,      *)
(* computes the whole method, and leaves in `call` what the method did     *)
(* (the requests it issued, the replies it got, how it ended).             *)
(***************************************************************************)
EXTENDS Integers, Sequences, FiniteSets, TLC

VARIABLES server, registry, entity, call

vars == <<server, registry, entity, call>>

---------------------------------------------------------------------------
(* Bounds of the model *)

\* the server hosts the clients with identifiers 1..MaxClients
MaxClients == 2

\* the error and warning codes a reply may carry are 0..MaxCode
MaxCode == 1

\* the clock is read up to ClockSlack seconds before or after the scheduled time
ClockSlack == 1

\* the activityControlOptions of a snapshot has up to MaxOptions entries
MaxOptions == 2

---------------------------------------------------------------------------
(* Python values *)

\* Values whose type the code tests, or that may be of several types, carry
\* their type: None, a str (its characters), an int, a bool, a dict.
None == [t |-> "NoneType", v |-> <<>>]

PyStr(s) == [t |-> "str", v |-> s]

PyInt(i) == [t |-> "int", v |-> i]

PyBool(b) == [t |-> "bool", v |-> b]

PyDict(d) == [t |-> "dict", v |-> d]

\* the empty dict / the empty JSON body
EmptyDict == <<>>

\* the truth value Python gives a dict or a decoded JSON body
TruthyDict(d) == DOMAIN d # {}

\* the truth value of `if x:` for None, a str, a bool or a dict
Truthy(x) ==
    CASE x.t = "NoneType" -> FALSE
      [] x.t = "str" -> x.v # <<>>
      [] x.t = "bool" -> x.v
      [] x.t = "dict" -> TruthyDict(x.v)

\* isinstance(x, str)
IsStr(x) == x.t = "str"

\* a character that is not ASCII is written by its name: "i_dotless" is the
\* small dotless i, U+0131

\* str.lower(), character by character; the small dotless i is lower case
LowerChar(c) ==
    CASE c = "A" -> "a"
      [] c = "B" -> "b"
      [] c = "C" -> "c"
      [] c = "I" -> "i"
      [] c = "Z" -> "z"
      [] OTHER -> c

lower(s) == [i \in 1..Len(s) |-> LowerChar(s[i])]

\* str(n) of a non-negative integer below 100
Digit(d) == <<"0", "1", "2", "3", "4", "5", "6", "7", "8", "9">>[d + 1]

str_int(n) == IF n < 10 THEN <<Digit(n)>> ELSE <<Digit(n \div 10), Digit(n % 10)>>

\* how a method ends: it returns a value or raises
Return(v) == [kind |-> "return", value |-> v]

\* a str the code only passes on (a server's message, a response's text)
Text(s) == [t |-> "text", v |-> s]

\* '...{0}...'.format(arg): the template, as the sequence of its fragments,
\* and its argument
Format(template, arg) == [template |-> template, arg |-> arg]

\* the SDKException raised without a message of its own
NoMessage == Format(<<>>, None)

\* SDKException(module, code, message)
SDKException(module, code, message) ==
    [kind |-> "raise", type |-> "SDKException", module |-> module, code |-> code,
     message |-> message]

\* an exception the code does not raise itself (KeyError, IndexError)
Uncaught(type) ==
    [kind |-> "raise", type |-> type, module |-> "", code |-> "", message |-> NoMessage]

\* commcell_object._update_response_(response.text): defined outside
\* client.py, kept as the term applied to the text
_update_response_(text) == [t |-> "_update_response_", v |-> text]

---------------------------------------------------------------------------
(* The transport: make_request(method, url, body) -> (flag, response) *)

\* the URL templates of commcell_object._services, and a URL made from one
Url(template, id, suffix) == [template |-> template, id |-> id, suffix |-> suffix]

GET_ALL_CLIENTS == Url("GET_ALL_CLIENTS", <<>>, "")

CLIENT(client_id) == Url("CLIENT", client_id, "")

Request(method, url, body) == [method |-> method, url |-> url, body |-> body]

Reply(flag, json, text) == [flag |-> flag, json |-> json, text |-> text]

\* the replies of a transport that reports non-success
FailedReplies == {Reply(FALSE, EmptyDict, "Service Unavailable")}

\* a transport success whose body decodes to nothing
EmptyReply == Reply(TRUE, EmptyDict, "")

\* a transport success whose body has none of the keys the code looks for
OtherReply == Reply(TRUE, [other |-> 1], "")

---------------------------------------------------------------------------
(* The server *)

\* the names the server gives its clients: mixed case, distinct when lowercased
ServerName(id) ==
    IF id % 2 = 1 THEN <<"C", "a", Digit(id)>> ELSE <<"c", "I", Digit(id)>>

ClientIds == 1..MaxClients

\* the listing of the clients the server hosts, in ascending identifier order
RECURSIVE Listing(_, _)
Listing(ids, from) ==
    IF from > MaxClients THEN <<>>
    ELSE (IF from \in ids
          THEN <<[client |-> [clientEntity |->
                       [clientName |-> ServerName(from), clientId |-> from]]]>>
          ELSE <<>>) \o Listing(ids, from + 1)

\* the replies to GET <all clients>
ListReplies(srv) ==
    FailedReplies \cup {EmptyReply, OtherReply}
        \cup {Reply(TRUE, [clientProperties |-> Listing(srv.clients, 1)], "")}

Codes == 0..MaxCode

\* the message the server gives with a code
MessageOf(code) == IF code = 0 THEN "" ELSE "denied"

\* the replies to a POST of an activity request: errorCode in a 'response'
\* array, with or without an errorMessage
PostReplies ==
    FailedReplies \cup {EmptyReply, OtherReply}
        \cup {Reply(TRUE, [response |-> <<[errorCode |-> c]>>], "") : c \in Codes}
        \cup {Reply(TRUE, [response |-> <<[errorCode |-> c,
                                           errorMessage |-> MessageOf(c)]>>], "") :
                 c \in Codes \ {0}}

\* the replies to a DELETE: errorCode in a 'response' array, or errorCode and
\* warningCode fields of the body itself, with or without their messages
DeleteReplies ==
    FailedReplies \cup {EmptyReply, OtherReply}
        \cup {Reply(TRUE, [response |-> <<[errorCode |-> c]>>], "") : c \in Codes}
        \cup {Reply(TRUE, [errorCode |-> c, errorMessage |-> MessageOf(c),
                           warningCode |-> w, warningMessage |-> MessageOf(w)], "") :
                 c \in Codes, w \in Codes}
        \cup {Reply(TRUE, [errorCode |-> c, errorMessage |-> ""], "") : c \in Codes \ {0}}
        \cup {Reply(TRUE, [warningCode |-> w, warningMessage |-> ""], "") :
                 w \in Codes \ {0}}
        \cup {Reply(TRUE, [errorCode |-> c], "") : c \in Codes \ {0}}

\* the reply says the server carried the request out
Accepted(reply) ==
    /\ reply.flag
    /\ "response" \in DOMAIN reply.json
    /\ reply.json.response[1].errorCode = 0

\* the server after it answered request with reply: a DELETE it accepted
\* removes the client.  The activity settings a POST changes are the
\* server's own and are no part of its state here.
Serve(srv, request, reply) ==
    IF Accepted(reply) /\ request.method = "DELETE"
    THEN [srv EXCEPT !.clients = {i \in @ : str_int(i) # request.url.id}]
    ELSE srv

\* the server after it answered the requests, in order, with the replies rs
RECURSIVE Answered(_, _, _)
Answered(srv, requests, rs) ==
    IF Len(requests) = 0 THEN srv
    ELSE Answered(Serve(srv, Head(requests), Head(rs)), Tail(requests), Tail(rs))

\* the replies to GET <client>: a property document
PropertyBody(control, activities) ==
    [clientProperties |->
        <<[client |-> [osInfo |->
               [Type |-> "Windows", SubType |-> "Server",
                OsDisplayInfo |-> [ProcessorType |-> "WinX64",
                                   OSName |-> "Windows Server 2012"]]],
           clientProps |->
               [activityControl |->
                    [EnableDataRecovery |-> control[1],
                     EnableDataManagement |-> control[2],
                     EnableOnlineContentIndex |-> control[3]],
                clientActivityControl |-> [activityControlOptions |-> activities]]]>>]

Option(activityType, enableActivityType) ==
    [activityType |-> activityType, enableActivityType |-> enableActivityType]

PropertyBodies ==
    {PropertyBody(<<TRUE, FALSE, TRUE>>,
                  <<Option(1, TRUE), Option(2, FALSE), Option(16, TRUE)>>)}

PropertyReplies ==
    FailedReplies \cup {EmptyReply, OtherReply}
        \cup {Reply(TRUE, body, "") : body \in PropertyBodies}

---------------------------------------------------------------------------
(* Clients *)

\* what a method did: the requests it issued, in order, and how it ended
Did(requests, outcome) == [requests |-> requests, outcome |-> outcome]

\* the loop of _get_clients over response.json()['clientProperties']
RECURSIVE clients_dict(_, _)
clients_dict(listing, d) ==
    IF Len(listing) = 0 THEN d
    ELSE LET dictionary == Head(listing)
             temp_name == lower(dictionary.client.clientEntity.clientName)
             temp_id == lower(str_int(dictionary.client.clientEntity.clientId))
         IN clients_dict(Tail(listing),
                         [k \in DOMAIN d \cup {temp_name} |->
                            IF k = temp_name THEN temp_id ELSE d[k]])

\* Clients._get_clients(): rs[1] is the transport's reply to the GET
_get_clients(rs) ==
    LET response == rs[1]
    IN Did(<<Request("GET", GET_ALL_CLIENTS, None)>>,
           IF response.flag
           THEN IF TruthyDict(response.json) /\ "clientProperties" \in DOMAIN response.json
                THEN Return(PyDict(clients_dict(response.json.clientProperties, EmptyDict)))
                ELSE SDKException("Response", "102", NoMessage)
           ELSE SDKException("Response", "101", _update_response_(Text(response.text))))

\* has_client that looks the name up as it is spelled
has_client_exact(_clients, client_name) ==
    IF ~IsStr(client_name)
    THEN Did(<<>>, SDKException("Client", "101", NoMessage))
    ELSE Did(<<>>, Return(IF TruthyDict(_clients)
                          THEN PyBool(client_name.v \in DOMAIN _clients)
                          ELSE PyDict(_clients)))

\* Clients.has_client(client_name) on the cached mapping _clients
has_client(_clients, client_name) ==
    IF ~IsStr(client_name)
    THEN Did(<<>>, SDKException("Client", "101", NoMessage))
    ELSE Did(<<>>, Return(IF TruthyDict(_clients)
                          THEN PyBool(lower(client_name.v) \in DOMAIN _clients)
                          ELSE PyDict(_clients)))

---------------------------------------------------------------------------
(* Client: construction and the property snapshot *)

\* an attribute __init__ has not assigned
Unset == "<unset>"

\* the attributes of a Client before _get_client_properties assigns them
NoProperties ==
    [_os_info |-> Format(<<>>, <<>>), _data_recovery |-> Unset, _data_management |-> Unset,
     _online_content_index |-> Unset, _backup |-> Unset, _restore |-> Unset,
     _data_aging |-> Unset]

\* no Client is held
NoClient ==
    [constructed |-> FALSE, _client_name |-> <<>>, _client_id |-> <<>>,
     properties |-> NoProperties]

\* the Client object: its name, id and the attributes of the snapshot
ClientObject(_client_name, _client_id, properties) ==
    [constructed |-> TRUE, _client_name |-> _client_name, _client_id |-> _client_id,
     properties |-> properties]

\* 'Enabled' if the JSON value is True, else 'Disabled'
EnabledIfTrue(value) == IF value = TRUE THEN "Enabled" ELSE "Disabled"

\* the loop of _get_client_properties over activityControlOptions
RECURSIVE activities_loop(_, _)
activities_loop(activities, attrs) ==
    IF Len(activities) = 0 THEN attrs
    ELSE LET activity == Head(activities)
             flag == EnabledIfTrue(activity.enableActivityType)
         IN activities_loop(
                Tail(activities),
                IF activity.activityType = 1 THEN [attrs EXCEPT !._backup = flag]
                ELSE IF activity.activityType = 2 THEN [attrs EXCEPT !._restore = flag]
                ELSE IF activity.activityType = 16 THEN [attrs EXCEPT !._data_aging = flag]
                ELSE attrs)

\* Client._get_client_properties(): rs[1] is the reply to the GET; the
\* attributes it assigns are returned beside what it did
_get_client_properties(_CLIENT, rs) ==
    LET response == rs[1]
        requests == <<Request("GET", _CLIENT, None)>>
    IN IF response.flag
       THEN IF TruthyDict(response.json) /\ "clientProperties" \in DOMAIN response.json
            THEN LET client_properties == response.json.clientProperties[1]
                     os_info == client_properties.client.osInfo
                     client_props == client_properties.clientProps
                     control == client_props.activityControl
                     activities ==
                         client_props.clientActivityControl.activityControlOptions
                 IN [requests |-> requests,
                     outcome |-> Return(None),
                     properties |->
                         activities_loop(
                             activities,
                             [NoProperties EXCEPT
                                !._os_info =
                                    Format(<<"{0} {1} {2}  --  {3}">>,
                                           <<os_info.OsDisplayInfo.ProcessorType,
                                             os_info.Type, os_info.SubType,
                                             os_info.OsDisplayInfo.OSName>>),
                                !._data_recovery = EnabledIfTrue(control.EnableDataRecovery),
                                !._data_management =
                                    EnabledIfTrue(control.EnableDataManagement),
                                !._online_content_index =
                                    EnabledIfTrue(control.EnableOnlineContentIndex)])]
            ELSE [requests |-> requests,
                  outcome |-> SDKException("Response", "102", NoMessage),
                  properties |-> NoProperties]
       ELSE [requests |-> requests,
             outcome |-> SDKException("Response", "101",
                                      _update_response_(Text(response.text))),
             properties |-> NoProperties]

\* the replies rs left after a method that issued the requests of did
Rest(rs, did) == SubSeq(rs, Len(did.requests) + 1, Len(rs))

\* 'No client exists with name: {0}'.format(client_name)
NoClientExists(client_name) ==
    SDKException("Client", "102",
                 Format(<<"No client exists with name: {0}">>, PyStr(client_name)))

\* Client.__init__(commcell_object, client_name, client_id), with
\* Client._get_client_id() and Clients.get() where it leads to them; the
\* replies rs answer the requests in the order they are issued.  Agents(self)
\* and Schedules(self) are other modules' constructors and are left out.
RECURSIVE Client__init__(_, _, _)
RECURSIVE get(_, _, _)

\* Client._get_client_id(): a new Clients, then get(client_name).client_id
_get_client_id(client_name, rs) ==
    LET listed == _get_clients(rs)
    IN IF listed.outcome.kind = "raise" THEN listed
       ELSE LET got == get(listed.outcome.value.v, PyStr(client_name), Rest(rs, listed))
            IN Did(listed.requests \o got.requests,
                   IF got.outcome.kind = "raise" THEN got.outcome
                   ELSE Return(PyStr(got.outcome.value._client_id)))

Client__init__(client_name, client_id, rs) ==
    LET _client_name == lower(client_name.v)
        resolved == IF Truthy(client_id)
                    THEN Did(<<>>, Return(client_id))
                    ELSE _get_client_id(_client_name, rs)
    IN IF resolved.outcome.kind = "raise" THEN resolved
       ELSE LET _client_id == resolved.outcome.value.v
                fetched == _get_client_properties(CLIENT(_client_id), Rest(rs, resolved))
            IN Did(resolved.requests \o fetched.requests,
                   IF fetched.outcome.kind = "raise" THEN fetched.outcome
                   ELSE Return(ClientObject(_client_name, _client_id, fetched.properties)))

\* get that looks the identifier up under the name as it is spelled
get_as_spelled(_clients, client_name, rs) ==
    IF ~IsStr(client_name)
    THEN Did(<<>>, SDKException("Client", "101", NoMessage))
    ELSE IF Truthy(has_client(_clients, client_name).outcome.value)
         THEN IF client_name.v \in DOMAIN _clients
              THEN Client__init__(client_name, PyStr(_clients[client_name.v]), rs)
              ELSE Did(<<>>, Uncaught("KeyError"))
         ELSE Did(<<>>, NoClientExists(client_name.v))

\* Clients.get(client_name) on the cached mapping _clients
get(_clients, client_name, rs) ==
    IF ~IsStr(client_name)
    THEN Did(<<>>, SDKException("Client", "101", NoMessage))
    ELSE LET name == lower(client_name.v)
         IN IF Truthy(has_client(_clients, PyStr(name)).outcome.value)
            THEN Client__init__(PyStr(name), PyStr(_clients[name]), rs)
            ELSE Did(<<>>, NoClientExists(name))

\* the refresh that delete forgets: nothing is listed again
refreshed_never(_clients, requests, rs) ==
    [requests |-> requests, outcome |-> Return(None), _clients |-> _clients]

\* self._clients = self._get_clients() of delete, after the requests issued
\* so far: the mapping is assigned only if the listing returns
refreshed(_clients, requests, rs) ==
    LET listed == _get_clients(Rest(rs, [requests |-> requests]))
    IN [requests |-> requests \o listed.requests,
        outcome |-> IF listed.outcome.kind = "raise" THEN listed.outcome
                    ELSE Return(None),
        _clients |-> IF listed.outcome.kind = "raise" THEN _clients
                     ELSE listed.outcome.value.v]

\* Clients.delete(client_name) on the cached mapping _clients: rs[1] answers
\* the DELETE, rs[2] the GET of the re-listing.  The mapping the registry
\* holds afterwards is returned beside what the method did.
delete(_clients, client_name, rs) ==
    IF ~IsStr(client_name)
    THEN [requests |-> <<>>, outcome |-> SDKException("Client", "101", NoMessage),
          _clients |-> _clients]
    ELSE
    LET name == lower(client_name.v)
    IN IF ~Truthy(has_client(_clients, PyStr(name)).outcome.value)
       THEN [requests |-> <<>>, outcome |-> NoClientExists(name), _clients |-> _clients]
       ELSE
       LET client_id == _clients[name]
           client_delete_service == Url("CLIENT", client_id, "?forceDelete=1")
           requests == <<Request("DELETE", client_delete_service, None)>>
           response == rs[1]
           json == response.json
           Raised(exception) ==
               [requests |-> requests, outcome |-> exception, _clients |-> _clients]
       IN IF response.flag
          THEN IF TruthyDict(json)
               THEN IF "response" \in DOMAIN json
                    THEN IF json.response[1].errorCode = 0
                         THEN refreshed(_clients, requests, rs)
                         ELSE [requests |-> requests, outcome |-> Return(None),
                               _clients |-> _clients]
                    ELSE
                    LET error_code == IF "errorCode" \in DOMAIN json
                                      THEN json.errorCode ELSE 0
                        warning_code == IF "warningCode" \in DOMAIN json
                                        THEN json.warningCode ELSE 0
                    IN IF error_code # 0
                       THEN IF "errorMessage" \notin DOMAIN json
                            THEN Raised(Uncaught("KeyError"))
                            ELSE IF json.errorMessage # ""
                            THEN Raised(SDKException("Client", "102",
                                     Format(<<"Failed to delete client", "\nError: \"{0}\"">>,
                                            Text(json.errorMessage))))
                            ELSE Raised(SDKException("Client", "102",
                                     Format(<<"Failed to delete client">>, None)))
                       ELSE IF warning_code # 0
                       THEN IF "warningMessage" \notin DOMAIN json
                            THEN Raised(Uncaught("KeyError"))
                            ELSE IF json.warningMessage # ""
                            THEN Raised(SDKException("Client", "102",
                                     Format(<<"Failed to delete client", "\nWarning: \"{0}\"">>,
                                            Text(json.warningMessage))))
                            ELSE Raised(SDKException("Client", "102",
                                     Format(<<"Failed to delete client">>, None)))
                       ELSE Raised(SDKException("Client", "102",
                                Format(<<"Failed to delete client">>, None)))
               ELSE Raised(SDKException("Response", "102", NoMessage))
          ELSE Raised(SDKException("Client", "102",
                   Format(<<"Failed to delete the client", "\nError: \"{0}\"">>,
                          _update_response_(Text(response.text)))))

---------------------------------------------------------------------------
(* Client: the activity requests *)

\* options_dict with the code of Data Aging mistyped
options_dict_mistyped(option) ==
    CASE option = "Backup" -> 1
      [] option = "Restore" -> 2
      [] option = "Data Aging" -> 6

\* options_dict of _request_json_
options_dict(option) ==
    CASE option = "Backup" -> 1
      [] option = "Restore" -> 2
      [] option = "Data Aging" -> 16

\* Client._request_json_(option, enable, enable_time) of the client client_name
_request_json_(client_name, option, enable, enable_time) ==
    LET request_json1 ==
            [association |-> [entity |-> <<[clientName |-> client_name]>>],
             clientProperties |-> [clientProps |-> [clientActivityControl |->
                 [activityControlOptions |->
                     <<[activityType |-> options_dict(option),
                        enableAfterADelay |-> FALSE,
                        enableActivityType |-> enable]>>]]]]
        request_json2 ==
            [association |-> [entity |-> <<[clientName |-> client_name]>>],
             clientProperties |-> [clientProps |-> [clientActivityControl |->
                 [activityControlOptions |->
                     <<[activityType |-> options_dict(option),
                        enableAfterADelay |-> TRUE,
                        enableActivityType |-> FALSE,
                        dateTime |->
                            [TimeZoneName |-> "(UTC) Coordinated Universal Time",
                             timeValue |-> enable_time]]>>]]]]
    IN IF Truthy(enable_time) THEN request_json2 ELSE request_json1

\* what a method of a Client did, and the Client as the method leaves it
DidTo(self, requests, outcome) ==
    [requests |-> requests, outcome |-> outcome, self |-> self]

\* the POST of an activity request and the reading of its reply, which each
\* of the nine methods spells out in the same words; failed_to is the
\* method's own 'Failed to <enable|disable> <option>'.  No branch assigns an
\* attribute of self.
post_request(self, request_json, failed_to, rs) ==
    LET response == rs[1]
        json == response.json
    IN DidTo(self, <<Request("POST", CLIENT(self._client_id), request_json)>>,
           IF response.flag
           THEN IF TruthyDict(json) /\ "response" \in DOMAIN json
                THEN LET error_code == json.response[1].errorCode
                     IN IF error_code = 0
                        THEN Return(None)
                        ELSE IF "errorMessage" \in DOMAIN json.response[1]
                        THEN SDKException("Client", "102",
                                 Format(failed_to \o <<"\nError: \"{0}\"">>,
                                        Text(json.response[1].errorMessage)))
                        ELSE Return(None)
                ELSE SDKException("Response", "102", NoMessage)
           ELSE SDKException("Response", "101", _update_response_(Text(response.text))))

enable_backup(self, rs) ==
    post_request(self,
                 _request_json_(self._client_name, "Backup", TRUE, None),
                 <<"Failed to", "enable", "Backup">>, rs)

\* disable_backup that also notes the new setting in the snapshot it holds
disable_backup_noting(self, rs) ==
    LET did == post_request(self,
                            _request_json_(self._client_name, "Backup", FALSE, None),
                            <<"Failed to", "disable", "Backup">>, rs)
    IN IF did.outcome.kind = "raise" THEN did
       ELSE [did EXCEPT !.self.properties._backup = "Disabled"]

disable_backup(self, rs) ==
    post_request(self,
                 _request_json_(self._client_name, "Backup", FALSE, None),
                 <<"Failed to", "disable", "Backup">>, rs)

enable_restore(self, rs) ==
    post_request(self,
                 _request_json_(self._client_name, "Restore", TRUE, None),
                 <<"Failed to", "enable", "Restore">>, rs)

\* disable_restore with the message of enable_restore pasted in
disable_restore_pasted(self, rs) ==
    post_request(self,
                 _request_json_(self._client_name, "Restore", FALSE, None),
                 <<"Failed to", "enable", "Restore">>, rs)

disable_restore(self, rs) ==
    post_request(self,
                 _request_json_(self._client_name, "Restore", FALSE, None),
                 <<"Failed to", "disable", "Restore">>, rs)

\* enable_data_aging with the option of enable_restore pasted in
enable_data_aging_pasted(self, rs) ==
    post_request(self,
                 _request_json_(self._client_name, "Restore", TRUE, None),
                 <<"Failed to", "enable", "Data Aging">>, rs)

enable_data_aging(self, rs) ==
    post_request(self,
                 _request_json_(self._client_name, "Data Aging", TRUE, None),
                 <<"Failed to", "enable", "Data Aging">>, rs)

disable_data_aging(self, rs) ==
    post_request(self,
                 _request_json_(self._client_name, "Data Aging", FALSE, None),
                 <<"Failed to", "disable", "Data Aging">>, rs)

---------------------------------------------------------------------------
(* Client: enabling at a time *)

\* A timestamp string is the layout it is written in and the numbers it
\* shows; the empty string is <<>>.
Written(layout, Y, m, d, H, M, S) ==
    [layout |-> layout, Y |-> Y, m |-> m, d |-> d, H |-> H, M |-> M, S |-> S]

IsLeap(Y) == (Y % 4 = 0 /\ Y % 100 # 0) \/ Y % 400 = 0

DaysInMonth(Y, m) ==
    CASE m \in {1, 3, 5, 7, 8, 10, 12} -> 31
      [] m \in {4, 6, 9, 11} -> 30
      [] m = 2 -> IF IsLeap(Y) THEN 29 ELSE 28

\* time.strptime(string, format) returns a time tuple (TRUE) or raises
\* ValueError (FALSE)
strptime_ok(string, format) ==
    /\ string # <<>>
    /\ string.layout = format
    /\ string.Y \in 1..9999
    /\ string.m \in 1..12
    /\ string.d \in 1..DaysInMonth(string.Y, string.m)
    /\ string.H \in 0..23
    /\ string.M \in 0..59
    /\ string.S \in 0..61

RECURSIVE DaysBeforeMonth(_, _)
DaysBeforeMonth(Y, m) ==
    IF m = 1 THEN 0 ELSE DaysBeforeMonth(Y, m - 1) + DaysInMonth(Y, m - 1)

\* the days from 1970-01-01 to Y-01-01, for Y >= 1970
DaysBeforeYear(Y) ==
    365 * (Y - 1970) + ((Y - 1969) \div 4) - ((Y - 1901) \div 100) + ((Y - 1601) \div 400)

\* time.mktime(time_tuple): the seconds from the epoch to the local time
mktime(tt) ==
    ((((DaysBeforeYear(tt.Y) + DaysBeforeMonth(tt.Y, tt.m) + (tt.d - 1)) * 24 + tt.H) * 60)
        + tt.M) * 60 + tt.S

\* Before with the instant of the clock itself counted as past
BeforeOrAt(seconds, now) == seconds <= now

\* seconds < time.time(), the clock reading now being in seconds
Before(seconds, now) == seconds < now

\* the try block without the comparison with the clock
time_check_of_format(enable_time, now) ==
    IF ~strptime_ok(enable_time.v, "%Y-%m-%d %H:%M:%S")
    THEN SDKException("Client", "104", NoMessage)
    ELSE Return(None)

\* the try block of the three at-time methods
time_check(enable_time, now) ==
    IF ~strptime_ok(enable_time.v, "%Y-%m-%d %H:%M:%S")
    THEN SDKException("Client", "104", NoMessage)
    ELSE IF Before(mktime(enable_time.v), now)
    THEN SDKException("Client", "103", NoMessage)
    ELSE Return(None)

enable_backup_at_time(self, enable_time, now, rs) ==
    IF time_check(enable_time, now).kind = "raise"
    THEN DidTo(self, <<>>, time_check(enable_time, now))
    ELSE post_request(self,
                      _request_json_(self._client_name, "Backup", FALSE, enable_time),
                      <<"Failed to", "enable", "Backup">>, rs)

enable_restore_at_time(self, enable_time, now, rs) ==
    IF time_check(enable_time, now).kind = "raise"
    THEN DidTo(self, <<>>, time_check(enable_time, now))
    ELSE post_request(self,
                      _request_json_(self._client_name, "Restore", FALSE, enable_time),
                      <<"Failed to", "enable", "Restore">>, rs)

enable_data_aging_at_time(self, enable_time, now, rs) ==
    IF time_check(enable_time, now).kind = "raise"
    THEN DidTo(self, <<>>, time_check(enable_time, now))
    ELSE post_request(self,
                      _request_json_(self._client_name, "Data Aging", FALSE, enable_time),
                      <<"Failed to", "enable", "Data Aging">>, rs)

---------------------------------------------------------------------------
(* The arguments the caller passes *)

\* client names: the server's names as it spells them, in lower case and in
\* capitals, a name of the server with a dotless i for its i, a name the
\* server does not know, and a value that is no str
NameArgs ==
    {PyStr(ServerName(i)) : i \in ClientIds}
        \cup {PyStr(lower(ServerName(1))), PyStr(<<"C", "A", "1">>),
              PyStr(<<"c", "i_dotless", "2">>), PyStr(<<"z">>), PyInt(1)}

\* (client_name, client_id) of Client(...): the id given, omitted or empty
ClientArgs ==
    {<<PyStr(ServerName(i)), PyStr(str_int(i))>> : i \in ClientIds}
        \cup {<<PyStr(ServerName(1)), None>>, <<PyStr(<<"z">>), None>>,
              <<PyStr(ServerName(MaxClients)), PyStr(<<>>)>>}

\* the time the at-time methods are asked for, in the format of the docstring
ScheduledTime == Written("%Y-%m-%d %H:%M:%S", 2030, 1, 1, 0, 0, 0)

\* enable_time: the scheduled time, a day no month has, another layout
TimeArgs ==
    {PyStr(ScheduledTime),
     PyStr([ScheduledTime EXCEPT !.m = 2, !.d = 30]),
     PyStr([ScheduledTime EXCEPT !.layout = "%d/%m/%Y %H:%M:%S"])}

\* the readings of time.time() around the scheduled time
Clock == {mktime(ScheduledTime) + k : k \in (0 - ClockSlack)..ClockSlack}

\* the clock of a call that takes no time argument
NoClock == 0 - 1

---------------------------------------------------------------------------
(* The state and the operations *)

\* what the last call was and did
Call(op, args, did, rs, now) ==
    [op |-> op, args |-> args, requests |-> did.requests,
     replies |-> SubSeq(rs, 1, Len(did.requests)), outcome |-> did.outcome, now |-> now]

\* the transport answers the k-th request of a method only if the method
\* issues one: the replies to choose from, given what the method does when
\* the replies from the k-th on are still to come
AnswersTo(k, did, replies) == IF Len(did.requests) >= k THEN replies ELSE {EmptyReply}

Init ==
    /\ server = [clients |-> ClientIds]
    /\ registry = [constructed |-> FALSE, _clients |-> EmptyDict]
    /\ entity = NoClient
    /\ call = Call("", <<>>, Did(<<>>, Return(None)), <<>>, NoClock)

\* clients = Clients(commcell_object)
ClientsInit ==
    \E r \in ListReplies(server) :
        LET did == _get_clients(<<r>>)
        IN /\ registry' = IF did.outcome.kind = "raise" THEN registry
                          ELSE [constructed |-> TRUE, _clients |-> did.outcome.value.v]
           /\ call' = Call("Clients.__init__", <<>>, did, <<r>>, NoClock)
           /\ UNCHANGED <<server, entity>>

\* clients.has_client(client_name)
HasClient ==
    /\ registry.constructed
    /\ \E client_name \in NameArgs :
        call' = Call("Clients.has_client", <<client_name>>,
                     has_client(registry._clients, client_name), <<>>, NoClock)
    /\ UNCHANGED <<server, registry, entity>>

\* client = clients.get(client_name)
Get ==
    /\ registry.constructed
    /\ \E client_name \in NameArgs :
        \E r \in AnswersTo(1, get(registry._clients, client_name, <<EmptyReply>>),
                           PropertyReplies) :
            LET did == get(registry._clients, client_name, <<r>>)
            IN /\ entity' = IF did.outcome.kind = "raise" THEN entity
                            ELSE did.outcome.value
               /\ call' = Call("Clients.get", <<client_name>>, did, <<r>>, NoClock)
    /\ UNCHANGED <<server, registry>>

\* clients.delete(client_name)
Delete ==
    /\ registry.constructed
    /\ \E client_name \in NameArgs :
        \E r1 \in AnswersTo(1, delete(registry._clients, client_name,
                                      <<EmptyReply, EmptyReply>>), DeleteReplies) :
            LET first == delete(registry._clients, client_name, <<r1, EmptyReply>>)
                deleted == Answered(server, first.requests, <<r1, EmptyReply>>)
            IN \E r2 \in AnswersTo(2, first, ListReplies(deleted)) :
                LET did == delete(registry._clients, client_name, <<r1, r2>>)
                IN /\ registry' = [registry EXCEPT !._clients = did._clients]
                   /\ server' = deleted
                   /\ call' = Call("Clients.delete", <<client_name>>, did, <<r1, r2>>,
                                   NoClock)
    /\ UNCHANGED entity

\* client = Client(commcell_object, client_name, client_id)
ClientInit ==
    /\ \E args \in ClientArgs :
        \E r1 \in IF Truthy(args[2]) THEN PropertyReplies ELSE ListReplies(server) :
            \E r2 \in AnswersTo(2, Client__init__(args[1], args[2],
                                                  <<r1, EmptyReply, EmptyReply>>),
                                PropertyReplies) :
                \E r3 \in AnswersTo(3, Client__init__(args[1], args[2],
                                                      <<r1, r2, EmptyReply>>),
                                    PropertyReplies) :
                    LET did == Client__init__(args[1], args[2], <<r1, r2, r3>>)
                    IN /\ entity' = IF did.outcome.kind = "raise" THEN entity
                                    ELSE did.outcome.value
                       /\ call' = Call("Client.__init__", args, did, <<r1, r2, r3>>,
                                       NoClock)
    /\ UNCHANGED <<server, registry>>

\* a method of the Client that posts an activity request
Posted(op, did, args, rs, now) ==
    /\ server' = Answered(server, did.requests, rs)
    /\ entity' = did.self
    /\ call' = Call(op, args, did, rs, now)
    /\ UNCHANGED registry

EnableBackup ==
    /\ entity.constructed
    /\ \E r \in PostReplies :
        Posted("Client.enable_backup", enable_backup(entity, <<r>>), <<>>, <<r>>, NoClock)

DisableBackup ==
    /\ entity.constructed
    /\ \E r \in PostReplies :
        Posted("Client.disable_backup", disable_backup(entity, <<r>>), <<>>, <<r>>, NoClock)

EnableRestore ==
    /\ entity.constructed
    /\ \E r \in PostReplies :
        Posted("Client.enable_restore", enable_restore(entity, <<r>>), <<>>, <<r>>, NoClock)

DisableRestore ==
    /\ entity.constructed
    /\ \E r \in PostReplies :
        Posted("Client.disable_restore", disable_restore(entity, <<r>>), <<>>, <<r>>,
               NoClock)

EnableDataAging ==
    /\ entity.constructed
    /\ \E r \in PostReplies :
        Posted("Client.enable_data_aging", enable_data_aging(entity, <<r>>), <<>>, <<r>>,
               NoClock)

DisableDataAging ==
    /\ entity.constructed
    /\ \E r \in PostReplies :
        Posted("Client.disable_data_aging", disable_data_aging(entity, <<r>>), <<>>, <<r>>,
               NoClock)

EnableBackupAtTime ==
    /\ entity.constructed
    /\ \E enable_time \in TimeArgs, now \in Clock :
        \E r \in AnswersTo(1, enable_backup_at_time(entity, enable_time, now,
                                                    <<EmptyReply>>), PostReplies) :
            Posted("Client.enable_backup_at_time",
                   enable_backup_at_time(entity, enable_time, now, <<r>>),
                   <<enable_time>>, <<r>>, now)

EnableRestoreAtTime ==
    /\ entity.constructed
    /\ \E enable_time \in TimeArgs, now \in Clock :
        \E r \in AnswersTo(1, enable_restore_at_time(entity, enable_time, now,
                                                     <<EmptyReply>>), PostReplies) :
            Posted("Client.enable_restore_at_time",
                   enable_restore_at_time(entity, enable_time, now, <<r>>),
                   <<enable_time>>, <<r>>, now)

EnableDataAgingAtTime ==
    /\ entity.constructed
    /\ \E enable_time \in TimeArgs, now \in Clock :
        \E r \in AnswersTo(1, enable_data_aging_at_time(entity, enable_time, now,
                                                        <<EmptyReply>>), PostReplies) :
            Posted("Client.enable_data_aging_at_time",
                   enable_data_aging_at_time(entity, enable_time, now, <<r>>),
                   <<enable_time>>, <<r>>, now)

Next ==
    \/ ClientsInit
    \/ HasClient
    \/ Get
    \/ Delete
    \/ ClientInit
    \/ EnableBackup
    \/ DisableBackup
    \/ EnableRestore
    \/ DisableRestore
    \/ EnableDataAging
    \/ DisableDataAging
    \/ EnableBackupAtTime
    \/ EnableRestoreAtTime
    \/ EnableDataAgingAtTime

Spec == Init /\ [][Next]_vars

---------------------------------------------------------------------------
(* What the claims speak of *)

\* the nine methods of Client that post an activity request
ActivityMethods ==
    {"Client.enable_backup", "Client.disable_backup", "Client.enable_backup_at_time",
     "Client.enable_restore", "Client.disable_restore", "Client.enable_restore_at_time",
     "Client.enable_data_aging", "Client.disable_data_aging",
     "Client.enable_data_aging_at_time"}

\* the words the failure of a method is to name: enable or disable, and the activity
OperationName(op) ==
    CASE op \in {"Client.enable_backup", "Client.enable_backup_at_time"} ->
             <<"enable", "Backup">>
      [] op = "Client.disable_backup" -> <<"disable", "Backup">>
      [] op \in {"Client.enable_restore", "Client.enable_restore_at_time"} ->
             <<"enable", "Restore">>
      [] op = "Client.disable_restore" -> <<"disable", "Restore">>
      [] op \in {"Client.enable_data_aging", "Client.enable_data_aging_at_time"} ->
             <<"enable", "Data Aging">>
      [] op = "Client.disable_data_aging" -> <<"disable", "Data Aging">>

\* the last call ended by raising SDKException(module, code, ...)
Raises(module, code) ==
    /\ call.outcome.kind = "raise"
    /\ call.outcome.type = "SDKException"
    /\ call.outcome.module = module
    /\ call.outcome.code = code

\* the last call returned None
ReturnsNone == call.outcome = Return(None)

\* the fragments of a template
Fragments(template) == {template[i] : i \in DOMAIN template}

\* the body of the reply has a 'response' array whose element 0 has this errorCode
ResponseCode(reply) == reply.json.response[1].errorCode

HasResponse(reply) == reply.flag /\ "response" \in DOMAIN reply.json

---------------------------------------------------------------------------
(* C1 *)

\* C1 (as claimed, in the case it singles out): a delete of a cached name
\* that is answered with a 'response' array whose element 0 has a non-zero
\* errorCode raises the delete failure ('Client'/'102') rather than returning.
C1_DeleteFailsOnErrorCode ==
    (call.op = "Clients.delete" /\ Len(call.requests) >= 1
        /\ HasResponse(call.replies[1]) /\ ResponseCode(call.replies[1]) # 0)
        => Raises("Client", "102")

---------------------------------------------------------------------------
(* C2 *)

\* C2 (as claimed): an activity method that reached the transport returns
\* normally only if the transport reported success and response[0].errorCode
\* is 0.
C2_ReturnsOnlyIfAccepted ==
    (call.op \in ActivityMethods /\ Len(call.requests) = 1
        /\ call.outcome.kind = "return")
        => Accepted(call.replies[1])

---------------------------------------------------------------------------
(* C3 *)

\* C3: every activity method that reached the transport reads the reply the
\* same way: errorCode 0 in 'response' returns None; a non-zero errorCode
\* with an errorMessage raises 'Client'/'102' whose message carries that
\* errorMessage and names the operation; a body that is empty or has no
\* 'response' raises 'Response'/'102'; a transport non-success raises
\* 'Response'/'101' carrying the text of the response.
C3_ReplyInterpretation ==
    (call.op \in ActivityMethods /\ Len(call.requests) = 1) =>
        LET reply == call.replies[1]
        IN /\ (HasResponse(reply) /\ ResponseCode(reply) = 0) => ReturnsNone
           /\ (HasResponse(reply) /\ ResponseCode(reply) # 0
                  /\ "errorMessage" \in DOMAIN reply.json.response[1]) =>
                 /\ Raises("Client", "102")
                 /\ call.outcome.message.arg = Text(reply.json.response[1].errorMessage)
                 /\ \A word \in Fragments(OperationName(call.op)) :
                        word \in Fragments(call.outcome.message.template)
           /\ (reply.flag /\ "response" \notin DOMAIN reply.json) =>
                 Raises("Response", "102")
           /\ ~reply.flag =>
                 /\ Raises("Response", "101")
                 /\ call.outcome.message.v = Text(reply.text)

\* C3 witness: disable_restore was answered errorCode # 0 with an
\* errorMessage and raised 'Client'/'102'
C3_Witness ==
    /\ call.op = "Client.disable_restore"
    /\ Len(call.requests) = 1
    /\ HasResponse(call.replies[1])
    /\ ResponseCode(call.replies[1]) # 0
    /\ "errorMessage" \in DOMAIN call.replies[1].json.response[1]
    /\ Raises("Client", "102")

---------------------------------------------------------------------------
(* C4 *)

\* C4 (as claimed): once the server has answered the DELETE of a cached name
\* n with errorCode 0, has_client(n) returns False.
C4_DeletedIsGone ==
    (call.op = "Clients.delete" /\ Len(call.requests) >= 1 /\ Accepted(call.replies[1]))
        => has_client(registry._clients, call.args[1]).outcome = Return(PyBool(FALSE))

---------------------------------------------------------------------------
(* C5 *)

\* C5 (as claimed): a delete or an activity method that ends by raising
\* leaves the server and the cached mapping as they were, and the cached
\* mapping of a registry is replaced only by a delete that returns.
C5_FailedCallChangesNothing ==
    [][/\ (call'.op \in ActivityMethods \cup {"Clients.delete"}
              /\ call'.outcome.kind = "raise")
          => (server' = server /\ registry' = registry)
       /\ (registry.constructed /\ registry'._clients # registry._clients)
          => (call'.op \in {"Clients.delete", "Clients.__init__"}
                 /\ call'.outcome.kind = "return")]_vars

---------------------------------------------------------------------------
(* C6 *)

\* the at-time methods and the time they were asked for
AtTimeMethods ==
    {"Client.enable_backup_at_time", "Client.enable_restore_at_time",
     "Client.enable_data_aging_at_time"}

Parses(enable_time) == strptime_ok(enable_time.v, "%Y-%m-%d %H:%M:%S")

\* C6 (as claimed): an at-time method raises 'Client'/'104' when its argument
\* does not parse, and 'Client'/'103' whenever the parsed instant is not
\* strictly later than the clock, the instant of the clock included.
C6_NotLaterIsRejected ==
    call.op \in AtTimeMethods =>
        /\ ~Parses(call.args[1]) => Raises("Client", "104")
        /\ (Parses(call.args[1]) /\ ~(mktime(call.args[1].v) > call.now))
              => Raises("Client", "103")

\* C6 (amended): an at-time method raises 'Client'/'104' exactly when its
\* argument does not parse, and 'Client'/'103' exactly when it parses to an
\* instant strictly earlier than the clock; an instant equal to the clock or
\* later passes the check and the request is posted.
C6_EarlierIsRejected ==
    call.op \in AtTimeMethods =>
        /\ ~Parses(call.args[1]) <=> Raises("Client", "104")
        /\ (Parses(call.args[1]) /\ mktime(call.args[1].v) < call.now)
              <=> Raises("Client", "103")
        /\ (Parses(call.args[1]) /\ mktime(call.args[1].v) >= call.now)
              <=> Len(call.requests) = 1

\* C6 witness: enable_restore_at_time was asked for the very instant of the
\* clock and posted its request
C6_Witness ==
    /\ call.op = "Client.enable_restore_at_time"
    /\ Parses(call.args[1])
    /\ mktime(call.args[1].v) = call.now
    /\ Len(call.requests) = 1
    /\ call.requests[1].method = "POST"

---------------------------------------------------------------------------
(* C7 *)

\* C7 (as claimed): every operation issues at most one request.
C7_AtMostOneRequest == Len(call.requests) <= 1

\* C7 (amended): every operation issues at most one request, but for two:
\* delete issues a second one, the GET of the re-listing, exactly when the
\* DELETE was answered with errorCode 0; and the construction of a Client
\* without a client_id issues up to three, which are three when it completes.
C7_RequestsPerOperation ==
    /\ call.op \notin {"Clients.delete", "Client.__init__"} => Len(call.requests) <= 1
    /\ call.op = "Clients.has_client" => Len(call.requests) = 0
    /\ call.op = "Clients.delete" =>
          /\ Len(call.requests) <= 2
          /\ Len(call.requests) = 2
                <=> (Len(call.requests) >= 1 /\ Accepted(call.replies[1]))
    /\ call.op = "Client.__init__" =>
          IF Truthy(call.args[2])
          THEN Len(call.requests) = 1
          ELSE /\ Len(call.requests) \in 1..3
               /\ call.outcome.kind = "return" => Len(call.requests) = 3

\* C7 witness: a delete issued its DELETE and then the GET of the re-listing
C7_Witness ==
    /\ call.op = "Clients.delete"
    /\ Len(call.requests) = 2
    /\ call.requests[1].method = "DELETE"
    /\ call.requests[2] = Request("GET", GET_ALL_CLIENTS, None)

---------------------------------------------------------------------------
(* C8 *)

\* the GETs of the per-client endpoint among the requests of the last call
PropertyFetches ==
    {i \in DOMAIN call.requests :
        call.requests[i].method = "GET" /\ call.requests[i].url.template = "CLIENT"}

\* C8 (as claimed): a construction of a Client that completes has fetched the
\* properties exactly once, the client_id supplied or not.
C8_OnePropertyFetch ==
    (call.op = "Client.__init__" /\ call.outcome.kind = "return")
        => Cardinality(PropertyFetches) = 1

---------------------------------------------------------------------------
(* C9 *)

\* C9: no activity method, whether it returns or raises, changes the name,
\* the id or an attribute of the snapshot of the Client it is called on.
C9_SnapshotIsKept ==
    [][call'.op \in ActivityMethods => entity' = entity]_vars

\* C9 witness: the server accepted disable_backup and the Client still says
\* that backup is enabled
C9_Witness ==
    /\ call.op = "Client.disable_backup"
    /\ Accepted(call.replies[1])
    /\ entity.constructed
    /\ entity.properties._backup = "Enabled"

---------------------------------------------------------------------------
(* C10: the request builder on its own *)

\* the arguments of _request_json_: the client's name, the option, enable
\* and enable_time, which is None, '' or a timestamp
BuilderArgs ==
    {<<PyStr(lower(ServerName(i))), Text(option), PyBool(enable), enable_time>> :
        i \in ClientIds, option \in {"Backup", "Restore", "Data Aging"},
        enable \in BOOLEAN, enable_time \in TimeArgs \cup {None, PyStr(<<>>)}}

InitBuilder ==
    /\ server = [clients |-> ClientIds]
    /\ registry = [constructed |-> FALSE, _clients |-> EmptyDict]
    /\ entity = NoClient
    /\ \E args \in BuilderArgs :
          call = Call("", args, Did(<<>>, Return(None)), <<>>, NoClock)

\* request_json = self._request_json_(option, enable, enable_time)
Build ==
    /\ call.op = ""
    /\ call' = Call("Client._request_json_", call.args,
                    Did(<<>>, Return(_request_json_(call.args[1].v, call.args[2].v,
                                                    call.args[3].v, call.args[4]))),
                    <<>>, NoClock)
    /\ UNCHANGED <<server, registry, entity>>

NextBuilder == Build

SpecBuilder == InitBuilder /\ [][NextBuilder]_vars

\* the code of each activity
ActivityCode(option) ==
    CASE option = "Backup" -> 1 [] option = "Restore" -> 2 [] option = "Data Aging" -> 16

\* the option records of the document the builder returned
BuiltOptions ==
    call.outcome.value.clientProperties.clientProps.clientActivityControl
        .activityControlOptions

\* the record of an immediate request, and what makes a record a scheduled one
Immediate(option, enable) ==
    [activityType |-> ActivityCode(option), enableAfterADelay |-> FALSE,
     enableActivityType |-> enable]

IsScheduled(record, option, enable_time) ==
    /\ DOMAIN record = {"activityType", "enableAfterADelay", "enableActivityType",
                        "dateTime"}
    /\ record.activityType = ActivityCode(option)
    /\ record.enableAfterADelay = TRUE
    /\ record.enableActivityType = FALSE
    /\ record.dateTime.timeValue = enable_time

---------------------------------------------------------------------------
(* C11 *)

\* str.upper(), character by character: the capital of the small dotless i
\* is I
UpperChar(c) ==
    CASE c = "a" -> "A"
      [] c = "b" -> "B"
      [] c = "c" -> "C"
      [] c = "i" -> "I"
      [] c = "i_dotless" -> "I"
      [] c = "z" -> "Z"
      [] OTHER -> c

upper(s) == [i \in 1..Len(s) |-> UpperChar(s[i])]

\* what has_client gives for client_name in the registry's present state
HasClientGives(client_name) == has_client(registry._clients, client_name).outcome

\* C11 (as claimed): has_client(n) gives what has_client(n.upper()) gives,
\* for every string n; for an n that is no string it raises 'Client'/'101'.
C11_SameInCapitals ==
    call.op = "Clients.has_client" =>
        IF IsStr(call.args[1])
        THEN call.outcome = HasClientGives(PyStr(upper(call.args[1].v)))
        ELSE Raises("Client", "101")

\* C11 (amended): has_client(n) gives what has_client(n.upper()) gives, for
\* every string n whose capitals have the lower case that n has
\* (n.upper().lower() == n.lower(), as for every ASCII string); for an n
\* that is no string it raises 'Client'/'101'.
C11_SameInCapitalsOfSameLowerCase ==
    call.op = "Clients.has_client" =>
        IF IsStr(call.args[1])
        THEN lower(upper(call.args[1].v)) = lower(call.args[1].v)
                => call.outcome = HasClientGives(PyStr(upper(call.args[1].v)))
        ELSE Raises("Client", "101")

\* C11 witness: has_client found a name spelled otherwise than in capitals,
\* in a registry that holds it in lower case
C11_Witness ==
    /\ call.op = "Clients.has_client"
    /\ IsStr(call.args[1])
    /\ upper(call.args[1].v) # call.args[1].v
    /\ call.outcome = Return(PyBool(TRUE))
    /\ HasClientGives(PyStr(upper(call.args[1].v))) = Return(PyBool(TRUE))

---------------------------------------------------------------------------
(* C12 *)

\* C12: has_client returns True or False for every string, whatever the
\* registry holds, also when it holds nothing.
C12_ReturnsBool ==
    (call.op = "Clients.has_client" /\ IsStr(call.args[1])) =>
        /\ call.outcome.kind = "return"
        /\ call.outcome.value.t = "bool"

---------------------------------------------------------------------------
(* C13 *)

\* C13: get of a name the mapping holds, spelled in any case, returns (unless
\* the property fetch fails) the Client of that name in lower case and of the
\* identifier the server listed for it; get of a name the mapping does not
\* hold raises 'Client'/'102' with the name in its message.
C13_GetGivesTheListed ==
    (call.op = "Clients.get" /\ IsStr(call.args[1])) =>
        LET name == lower(call.args[1].v)
        IN IF name \in DOMAIN registry._clients
           THEN \/ /\ call.outcome.kind = "return"
                   /\ call.outcome.value._client_name = name
                   /\ call.outcome.value._client_id = registry._clients[name]
                   /\ \E id \in ClientIds :
                         /\ lower(ServerName(id)) = name
                         /\ str_int(id) = call.outcome.value._client_id
                   /\ entity = call.outcome.value
                \/ Raises("Response", "101")
                \/ Raises("Response", "102")
           ELSE /\ Raises("Client", "102")
                /\ call.outcome.message
                      = Format(<<"No client exists with name: {0}">>, PyStr(name))

\* C13 witness: get of a listed name, asked for in capitals, returned its
\* Client
C13_Witness ==
    /\ call.op = "Clients.get"
    /\ call.args[1] = PyStr(<<"C", "A", "1">>)
    /\ call.outcome.kind = "return"
    /\ entity._client_name = <<"c", "a", "1">>
    /\ entity._client_id = <<"1">>

---------------------------------------------------------------------------
(* C14 *)

RegistryMethods == {"Clients.has_client", "Clients.get", "Clients.delete"}

\* the call c, made on the mapping _clients, fails the validation of its
\* arguments: a name that is no str, a name the mapping does not hold, a time
\* that does not parse or lies before the clock
FailsValidation(c, _clients) ==
    \/ /\ c.op \in RegistryMethods
       /\ ~IsStr(c.args[1])
    \/ /\ c.op \in {"Clients.get", "Clients.delete"}
       /\ IsStr(c.args[1])
       /\ lower(c.args[1].v) \notin DOMAIN _clients
    \/ /\ c.op \in AtTimeMethods
       /\ IsStr(c.args[1])
       /\ \/ ~Parses(c.args[1])
          \/ mktime(c.args[1].v) < c.now

\* the error the validation of the call c raises
ValidationError(c) ==
    CASE c.op \in RegistryMethods /\ ~IsStr(c.args[1]) -> "101"
      [] c.op \in RegistryMethods /\ IsStr(c.args[1]) -> "102"
      [] c.op \in AtTimeMethods /\ ~Parses(c.args[1]) -> "104"
      [] c.op \in AtTimeMethods /\ Parses(c.args[1]) -> "103"

\* C14: a call that fails the validation of its arguments raises the error
\* of that validation, has issued no request, and leaves the cached mapping,
\* the server and the Client as they were.
C14_InvalidCallIssuesNothing ==
    [][FailsValidation(call', registry._clients) =>
          /\ call'.outcome.kind = "raise"
          /\ call'.outcome.type = "SDKException"
          /\ call'.outcome.module = "Client"
          /\ call'.outcome.code = ValidationError(call')
          /\ call'.requests = <<>>
          /\ registry' = registry
          /\ server' = server
          /\ entity' = entity]_vars

\* C14 witness: enable_data_aging_at_time, asked for a time before the
\* clock, raised 'Client'/'103' without a request
C14_Witness ==
    /\ call.op = "Client.enable_data_aging_at_time"
    /\ Parses(call.args[1])
    /\ mktime(call.args[1].v) < call.now
    /\ Raises("Client", "103")
    /\ call.requests = <<>>

---------------------------------------------------------------------------
(* C15 *)

\* the document that names the client and holds the one option record
Document(client_name, record) ==
    [association |-> [entity |-> <<[clientName |-> client_name]>>],
     clientProperties |-> [clientProps |-> [clientActivityControl |->
         [activityControlOptions |-> <<record>>]]]]

\* the option record of a request scheduled for enable_time
Scheduled(option, enable_time) ==
    [activityType |-> ActivityCode(option), enableAfterADelay |-> TRUE,
     enableActivityType |-> FALSE,
     dateTime |-> [TimeZoneName |-> "(UTC) Coordinated Universal Time",
                   timeValue |-> enable_time]]

\* the option record the last call is to submit
SubmittedRecord ==
    IF call.op \in AtTimeMethods
    THEN Scheduled(OperationName(call.op)[2], call.args[1])
    ELSE Immediate(OperationName(call.op)[2], OperationName(call.op)[1] = "enable")

\* C15: each enable and disable method submits, as its one POST to the
\* endpoint of its client, the builder's document for its activity with
\* enableActivityType true for enable, false for disable, and
\* enableAfterADelay false; each at-time method whose time parses and is not
\* before the clock submits the document with enableActivityType false,
\* enableAfterADelay true and the time as it was given.
C15_SubmitsTheDocument ==
    (/\ call.op \in ActivityMethods
     /\ call.op \in AtTimeMethods
           => (Parses(call.args[1]) /\ mktime(call.args[1].v) >= call.now))
        => /\ call.requests
                = <<Request("POST", CLIENT(entity._client_id),
                            Document(entity._client_name, SubmittedRecord))>>
           /\ call.requests[1].body
                = _request_json_(entity._client_name, OperationName(call.op)[2],
                                 IF call.op \in AtTimeMethods THEN FALSE
                                 ELSE OperationName(call.op)[1] = "enable",
                                 IF call.op \in AtTimeMethods THEN call.args[1] ELSE None)

\* C15 witness: enable_backup_at_time submitted the scheduled document that
\* carries the time it was given
C15_Witness ==
    /\ call.op = "Client.enable_backup_at_time"
    /\ Len(call.requests) = 1
    /\ call.requests[1].method = "POST"
    /\ call.requests[1].body.clientProperties.clientProps.clientActivityControl
           .activityControlOptions[1].dateTime.timeValue = call.args[1]
    /\ call.args[1] = PyStr(ScheduledTime)

---------------------------------------------------------------------------
(* C16: the construction of a Client from every snapshot *)

\* the accessors backup, restore and data_aging: reading an attribute that
\* was never assigned raises AttributeError
backup(self) ==
    IF self.properties._backup = Unset THEN Uncaught("AttributeError")
    ELSE Return(self.properties._backup)

restore(self) ==
    IF self.properties._restore = Unset THEN Uncaught("AttributeError")
    ELSE Return(self.properties._restore)

data_aging(self) ==
    IF self.properties._data_aging = Unset THEN Uncaught("AttributeError")
    ELSE Return(self.properties._data_aging)

\* the activity types a snapshot may list: backup, restore, data aging and
\* one the code does not look for
ActivityTypes == {1, 2, 16, 4}

\* the lists of (activityType, enableActivityType) a snapshot may hold
OptionLists ==
    UNION {[1..n -> {Option(type, enabled) : type \in ActivityTypes, enabled \in BOOLEAN}] :
              n \in 0..MaxOptions}

\* the values of EnableDataRecovery, EnableDataManagement and
\* EnableOnlineContentIndex a snapshot may hold
Controls == {<<TRUE, FALSE, TRUE>>, <<FALSE, TRUE, FALSE>>}

InitSnapshot == Init

\* client = Client(commcell_object, client_name, client_id), the server
\* answering the property fetch with a snapshot of any list
ClientInitOfSnapshot ==
    /\ \E control \in Controls, activities \in OptionLists :
        LET r == Reply(TRUE, PropertyBody(control, activities), "")
            args == <<PyStr(ServerName(1)), PyStr(str_int(1))>>
            did == Client__init__(args[1], args[2], <<r>>)
        IN /\ entity' = IF did.outcome.kind = "raise" THEN entity ELSE did.outcome.value
           /\ call' = Call("Client.__init__", args, did, <<r>>, NoClock)
    /\ UNCHANGED <<server, registry>>

NextSnapshot == ClientInitOfSnapshot

SpecSnapshot == InitSnapshot /\ [][NextSnapshot]_vars

\* the list of the snapshot the last construction fetched
FetchedActivities ==
    call.replies[Len(call.replies)].json.clientProperties[1].clientProps
        .clientActivityControl.activityControlOptions

\* the accessor gives Enabled or Disabled, and gives what the last entry of
\* this activity type in the fetched list says, if there is one
FlagFollows(flag, type) ==
    /\ flag \in {Return("Enabled"), Return("Disabled")}
    /\ \A i \in DOMAIN FetchedActivities :
          (/\ FetchedActivities[i].activityType = type
           /\ \A j \in DOMAIN FetchedActivities :
                 j > i => FetchedActivities[j].activityType # type)
             => flag = Return(IF FetchedActivities[i].enableActivityType
                              THEN "Enabled" ELSE "Disabled")

\* C16: after a construction that completed, backup, restore and data_aging
\* are each Enabled or Disabled, as the entry of type 1, 2 and 16 of the
\* snapshot's list says, whatever the list.
C16_FlagsFollowTheSnapshot ==
    (call.op = "Client.__init__" /\ call.outcome.kind = "return") =>
        /\ FlagFollows(backup(entity), 1)
        /\ FlagFollows(restore(entity), 2)
        /\ FlagFollows(data_aging(entity), 16)

====
